---- MODULE Spec2Model ----
(***************************************************************************)
(* Model of the command executor of src/src/utils/xcode.ts:                *)
(* executeXcodeCommand, executeWithXcpretty and executeStandard, with the  *)
(* child process (or the xcpretty helper) as the environment that delivers *)
(* the events stdout/stderr data, close, error, onProgress, resolve and    *)
(* reject.  Further down: the argument quoting of executeXcodeCommand,      *)
(* constructDestinationString with the call sites that build a             *)
(* destination, and two executions running at once.                        *)
(*                                                                         *)
(* Text is a sequence of lines; a line is a record that says which phase   *)
(* markers it contains (String.includes) and which "N of M files" count    *)
(* the regular expression of line 366 finds in it.  The progress estimate  *)
(* is kept in quarters of a percent, because line 356 adds                 *)
(* phaseProgress / 4, which is not an integer: Pct(n) is n percent.        *)
(***************************************************************************)
EXTENDS Integers, Sequences, FiniteSets, TLC

\* ex: one execution of executeXcodeCommand; now: Date.now().
\* dst: one call that resolves a destination; quo: one command being quoted;
\* con: two executions of executeXcodeCommand running at once.
VARIABLES ex, now, dst, quo, con

vars == <<ex, now, dst, quo, con>>

\* Nothing has been called yet.
Idle == [pc |-> "idle"]

\* ------------------------------------------------------------------ bounds
\* Number of stdout/stderr data events (or helper onProgress calls) of one
\* execution.
MaxEvents == 3

\* ------------------------------------------------------------ arithmetic
Min(a, b) == IF a < b THEN a ELSE b

\* n percent, in quarters of a percent.
Pct(n) == 4 * n

\* Math.floor((a / b) * k) for b > 0.  The file totals of the lines below are
\* powers of two, for which the floating-point quotient is exact.
FloorRatio(a, b, k) == (a * k) \div b

\* ------------------------------------------------------------------ text
buildPhases == <<"CompileC", "CompileSwift", "Linking", "CodeSign">>

\* buildPhases.indexOf(phase), zero-based.
IndexOf(phase) == (CHOOSE i \in 1..Len(buildPhases) : buildPhases[i] = phase) - 1

NoMatch == <<>>

Line(text, marks, files) == [text |-> text, marks |-> marks, files |-> files]

Msg(text) == Line(text, {}, NoMatch)

\* line.includes(phase)
Includes(line, phase) == phase \in line.marks

\* line.match(/(\d+) of (\d+) files/): NoMatch, or <<N, M>> after parseInt.
FileCountMatch(line) == line.files

\* The output lines the child writes.
Lines ==
  { Line("note: build started", {}, NoMatch),
    Line("CompileC a.o a.c", {"CompileC"}, NoMatch),
    Line("Linking App", {"Linking"}, NoMatch),
    Line("CodeSign App.app", {"CodeSign"}, NoMatch),
    Line("CompileSwift Linking.swift", {"CompileSwift", "Linking"}, NoMatch),
    Line("1 of 4 files", {}, <<1, 4>>),
    Line("5 of 4 files", {}, <<5, 4>>),
    Line("0 of 0 files", {}, <<0, 0>>) }

LineOf(text) == CHOOSE l \in Lines : l.text = text

\* The stdout chunks of one 'data' event: one line, or two lines that arrive
\* together.
StdoutChunks ==
  { <<LineOf("note: build started"), LineOf("CompileC a.o a.c")>>,
    <<LineOf("CompileC a.o a.c"), LineOf("CompileC a.o a.c")>>,
    <<LineOf("CompileSwift Linking.swift")>>,
    <<LineOf("Linking App")>>,
    <<LineOf("CodeSign App.app")>>,
    <<LineOf("1 of 4 files")>>,
    <<LineOf("5 of 4 files")>>,
    <<LineOf("0 of 0 files")>> }

StderrChunks == { <<Msg("warning: deprecated")>> }

\* Exit codes of a child that was started: a number, or null after a signal.
ExitCodes == {"0", "1", "null"}

\* Exit code of the 'close' that follows a spawn 'error' (a negative errno).
SpawnErrorCode == "-2"

\* ------------------------------------------------------------------ time
progressUpdateInterval == 1000

\* Date.now() when the call is made.
StartTime == progressUpdateInterval + 1

\* Milliseconds between two events.
Deltas == {progressUpdateInterval, progressUpdateInterval + 1}

\* ------------------------------------------------------------- promises
NoResult == [success |-> FALSE, output |-> <<>>, hasError |-> FALSE, error |-> <<>>]

Pending == [state |-> "pending", value |-> NoResult]

\* resolve(value): settles a pending promise, does nothing to a settled one.
Resolve(p, value) ==
  IF p.state = "pending" THEN [state |-> "fulfilled", value |-> value] ELSE p

\* ------------------------------------------------------ progress updates
\* A ToolProgressUpdate.  message is the fixed part of the message text; phase is
\* the phase named by `details` of a running update ("" in a terminal update,
\* whose details, an excerpt of the error text, are not kept).
\* Mutant of Update: every update gets an identifier of its own.
Update_NewOperationId(s, status, progress, message, phase, t) ==
  [operationId |-> s.operationId + Len(s.updates) + 1, status |-> status,
   progress |-> progress, message |-> message, phase |-> phase, timestamp |-> t]

\* operationId || uuidv4(): executeXcodeCommand always passes its operationId.
Update(s, status, progress, message, phase, t) ==
  [operationId |-> s.operationId, status |-> status, progress |-> progress,
   message |-> message, phase |-> phase, timestamp |-> t]

\* progressCallback(update)
Emit(s, u) == [s EXCEPT !.updates = Append(@, u)]

\* ------------------------------------------------------- executeStandard
\* Math.min(Math.floor(25 * phaseIndex), 90)
PhaseFloor(phase) == Pct(Min(25 * IndexOf(phase), 90))

\* Math.min(estimatedProgress + phaseProgress / 4, 95), where
\* phaseProgress = Math.min(Math.floor((processedFiles / totalFiles) * 100), 100)
WithinPhaseEstimate(estimatedProgress, processedFiles, totalFiles) ==
  LET phaseProgress == Min(FloorRatio(processedFiles, totalFiles, 100), 100)
  IN  Min(estimatedProgress + phaseProgress, Pct(95))

\* Mutant of FileCountEstimate: the cap of 95 is left out.
FileCountEstimate_NoCap(processedFiles, totalFiles) ==
  Pct(FloorRatio(processedFiles, totalFiles, 90))

\* Math.min(Math.floor((processedFiles / totalFiles) * 90), 95)
FileCountEstimate(processedFiles, totalFiles) ==
  Pct(Min(FloorRatio(processedFiles, totalFiles, 90), 95))

\* Mutant of IntervalPassed: >= in place of >.
IntervalPassed_Inclusive(t, lastProgressUpdate) ==
  t - lastProgressUpdate >= progressUpdateInterval

\* now - lastProgressUpdate > progressUpdateInterval
IntervalPassed(t, lastProgressUpdate) ==
  t - lastProgressUpdate > progressUpdateInterval

\* `Phase: ${currentPhase || 'Preparing'}`
PhaseDetails(currentPhase) == IF currentPhase = "" THEN "Preparing" ELSE currentPhase

SendProgressUpdate(s, message, forceSend, t) ==
  IF s.hasCallback /\ (forceSend \/ IntervalPassed(t, s.lastProgressUpdate))
  THEN Emit([s EXCEPT !.lastProgressUpdate = t],
            Update(s, "running", s.estimatedProgress, message,
                   PhaseDetails(s.currentPhase), t))
  ELSE s

\* Mutant of FirstPhase: the inner loop does not break, the last match wins.
FirstPhase_LastMatch(line) ==
  LET found == {i \in 1..Len(buildPhases) : Includes(line, buildPhases[i])}
  IN  IF found = {} THEN ""
      ELSE buildPhases[CHOOSE i \in found : \A j \in found : i >= j]

\* The first phase of buildPhases the line includes (the inner loop breaks at
\* the first match), or "" when it includes none.
FirstPhase(line) ==
  LET found == {i \in 1..Len(buildPhases) : Includes(line, buildPhases[i])}
  IN  IF found = {} THEN ""
      ELSE buildPhases[CHOOSE i \in found : \A j \in found : i <= j]

\* Lines 336-363: phase detection and file counting for one line.
DetectPhase(s, line, t) ==
  LET phase == FirstPhase(line)
      s1 == IF s.currentPhase # phase
            THEN SendProgressUpdate(
                   [s EXCEPT !.currentPhase = phase,
                             !.estimatedProgress = PhaseFloor(phase)],
                   "phase", TRUE, t)
            ELSE s
      s2 == IF phase \in {"CompileC", "CompileSwift"}
            THEN [s1 EXCEPT
                    !.processedFiles = @ + 1,
                    !.estimatedProgress =
                       IF s1.totalFiles > 0
                       THEN WithinPhaseEstimate(@, s1.processedFiles + 1, s1.totalFiles)
                       ELSE @]
            ELSE s1
  IN  IF phase = "" THEN s ELSE SendProgressUpdate(s2, "Processing", FALSE, t)

\* Lines 365-375: the "x of y files" pattern.
CountFiles(s, line, t) ==
  LET fileCountMatch == FileCountMatch(line)
  IN  IF fileCountMatch = NoMatch THEN s
      ELSE LET s1 == [s EXCEPT !.processedFiles = fileCountMatch[1],
                               !.totalFiles = fileCountMatch[2]]
           IN  IF s1.totalFiles > 0
               THEN SendProgressUpdate(
                      [s1 EXCEPT !.estimatedProgress =
                          FileCountEstimate(s1.processedFiles, s1.totalFiles)],
                      "Processing file", TRUE, t)
               ELSE s1

RECURSIVE ProcessLines(_, _, _)
ProcessLines(s, lines, t) ==
  IF lines = <<>> THEN s
  ELSE ProcessLines(CountFiles(DetectPhase(s, Head(lines), t), Head(lines), t),
                    Tail(lines), t)

\* Mutant of OnStdoutData: the chunk is captured inside the callback branch.
OnStdoutData_CaptureWithCallback(s, chunk, t) ==
  IF s.hasCallback THEN ProcessLines([s EXCEPT !.stdout = @ \o chunk], chunk, t)
  ELSE s

\* process.stdout.on('data')
OnStdoutData(s, chunk, t) ==
  LET s1 == [s EXCEPT !.stdout = @ \o chunk]
  IN  IF s.hasCallback THEN ProcessLines(s1, chunk, t) ELSE s1

\* Mutant of OnStderrData: the warning update is subject to the throttle.
OnStderrData_Throttled(s, chunk, t) ==
  LET s1 == [s EXCEPT !.stderr = @ \o chunk]
  IN  IF s.hasCallback THEN SendProgressUpdate(s1, "Warning", FALSE, t) ELSE s1

\* process.stderr.on('data')
OnStderrData(s, chunk, t) ==
  LET s1 == [s EXCEPT !.stderr = @ \o chunk]
  IN  IF s.hasCallback THEN SendProgressUpdate(s1, "Warning", TRUE, t) ELSE s1

\* Mutant of SuccessOutput: the captured output as it is.
SuccessOutput_NoDefault(stdout) == stdout

\* output: stdout || `${logPrefix} operation completed successfully`
SuccessOutput(stdout) ==
  IF stdout = <<>> THEN <<Msg("operation completed successfully")>> ELSE stdout

\* Mutant of FailureError: stderr is passed on without the generic message.
FailureError_StderrOnly(stderr, exitCode) == stderr

\* error: stderr || `Operation failed with exit code ${exitCode}. No stderr output.`
FailureError(stderr, exitCode) ==
  IF stderr = <<>> THEN <<Msg("Operation failed with exit code"), Msg(exitCode)>>
  ELSE stderr

\* Mutant of CloseUpdate: progress 100 whatever the exit code.
CloseUpdate_Always100(s, success, t) ==
  Update(s, IF success THEN "completed" ELSE "failed", Pct(100),
         IF success THEN "completed successfully" ELSE "failed with exit code",
         "", t)

\* The update of the close handler, lines 399-408.
CloseUpdate(s, success, t) ==
  Update(s, IF success THEN "completed" ELSE "failed",
         IF success THEN Pct(100) ELSE s.estimatedProgress,
         IF success THEN "completed successfully" ELSE "failed with exit code",
         "", t)

\* Mutant of OnClose: a failed command is started again.
OnClose_Retry(s, exitCode, t) ==
  LET success == exitCode = "0"
      s1 == IF s.hasCallback THEN Emit(s, CloseUpdate(s, success, t)) ELSE s
  IN  IF success
      THEN [s1 EXCEPT !.stdPromise =
              Resolve(@, [success |-> TRUE, output |-> SuccessOutput(s.stdout),
                          hasError |-> FALSE, error |-> <<>>])]
      ELSE [s EXCEPT !.spawned = @ + 1, !.stdout = <<>>, !.stderr = <<>>]

\* Mutant of OnClose: the generic message stands in for an empty output of a
\* failed command too.
OnClose_GenericOutput(s, exitCode, t) ==
  LET success == exitCode = "0"
      s1 == IF s.hasCallback THEN Emit(s, CloseUpdate(s, success, t)) ELSE s
      result == IF success
                THEN [success |-> TRUE, output |-> SuccessOutput(s.stdout),
                      hasError |-> FALSE, error |-> <<>>]
                ELSE [success |-> FALSE, output |-> SuccessOutput(s.stdout),
                      hasError |-> TRUE, error |-> FailureError(s.stderr, exitCode)]
  IN  [s1 EXCEPT !.stdPromise = Resolve(@, result)]

\* process.on('close')
OnClose(s, exitCode, t) ==
  LET success == exitCode = "0"
      s1 == IF s.hasCallback THEN Emit(s, CloseUpdate(s, success, t)) ELSE s
      result == IF success
                THEN [success |-> TRUE, output |-> SuccessOutput(s.stdout),
                      hasError |-> FALSE, error |-> <<>>]
                ELSE [success |-> FALSE, output |-> s.stdout,
                      hasError |-> TRUE, error |-> FailureError(s.stderr, exitCode)]
  IN  [s1 EXCEPT !.stdPromise = Resolve(@, result)]

\* The update of the error handler, lines 432-438.
ErrorUpdate(s, t) ==
  Update(s, "failed", 0, "Failed to start process", "", t)

\* error: `Failed to start process: ${err.message}`
SpawnError == <<Msg("Failed to start process"), Msg("spawn sh EAGAIN")>>

\* Mutant of OnError: the handler reports the failure and does not resolve.
OnError_NoResolve(s, t) ==
  IF s.hasCallback THEN Emit(s, ErrorUpdate(s, t)) ELSE s

\* process.on('error')
OnError(s, t) ==
  LET s1 == IF s.hasCallback THEN Emit(s, ErrorUpdate(s, t)) ELSE s
  IN  [s1 EXCEPT !.stdPromise =
         Resolve(@, [success |-> FALSE, output |-> s.stdout,
                     hasError |-> TRUE, error |-> SpawnError])]

\* executeStandard up to the return of its promise: spawn and fresh locals.
ExecuteStandard(s) ==
  [s EXCEPT !.child = "spawned", !.stdout = <<>>, !.stderr = <<>>,
            !.currentPhase = "", !.totalFiles = 0, !.processedFiles = 0,
            !.estimatedProgress = 0, !.lastProgressUpdate = 0,
            !.stdPromise = Pending, !.spawned = @ + 1]

\* --------------------------------------------------- executeWithXcpretty
\* What the helper passes to onProgress: phase "" and fileCount/fileIndex 0
\* stand for absent fields, null for a call without data.
XcData(null, phase, fileIndex, fileCount) ==
  [null |-> null, phase |-> phase, fileIndex |-> fileIndex, fileCount |-> fileCount]

XcProgressData ==
  { XcData(TRUE, "", 0, 0),
    XcData(FALSE, "Clean", 0, 0),
    XcData(FALSE, "Compile", 1, 4),
    XcData(FALSE, "Link", 0, 0),
    XcData(FALSE, "CodeSign", 0, 0),
    XcData(FALSE, "Analyze", 0, 0),
    XcData(FALSE, "", 5, 4) }

\* What the helper's promise resolves to: { status, output, error? }.
XcResult(status, output, error) ==
  [status |-> status, output |-> output, error |-> error]

XcResults ==
  { XcResult("0", <<>>, <<>>),
    XcResult("0", <<Msg("pretty build log")>>, <<>>),
    XcResult("1", <<Msg("pretty build log")>>, <<Msg("error: build failed")>>),
    XcResult("1", <<>>, <<>>),
    XcResult("null", <<>>, <<Msg("error: build failed")>>) }

\* The switch of lines 168-184.
XcPhaseProgress(currentPhase, estimatedProgress) ==
  CASE currentPhase = "Clean" -> Pct(5)
    [] currentPhase = "Compile" -> Pct(25)
    [] currentPhase = "Link" -> Pct(75)
    [] currentPhase \in {"Copy", "CodeSign"} -> Pct(90)
    [] OTHER -> estimatedProgress

\* Math.min(Math.floor((data.fileIndex / data.fileCount) * 100), 95)
XcFilePercent(fileIndex, fileCount) ==
  Pct(Min(FloorRatio(fileIndex, fileCount, 100), 95))

\* The onProgress callback handed to the helper, lines 160-211.
XcOnProgress(s, data, t) ==
  IF data.null \/ ~s.hasCallback THEN s
  ELSE
    LET s1 == IF data.phase # ""
              THEN [s EXCEPT !.xcCurrentPhase = data.phase,
                             !.xcEstimatedProgress = XcPhaseProgress(data.phase, @)]
              ELSE s
        s2 == IF data.fileCount # 0 /\ data.fileIndex # 0
              THEN [s1 EXCEPT !.xcEstimatedProgress =
                                 XcFilePercent(data.fileIndex, data.fileCount)]
              ELSE s1
    IN  IF IntervalPassed(t, s2.xcLastProgressUpdate)
        THEN Emit([s2 EXCEPT !.xcLastProgressUpdate = t],
                  Update(s2, "running", s2.xcEstimatedProgress, "xcpretty",
                         s2.xcCurrentPhase, t))
        ELSE s2

\* The update of the then handler, lines 218-227.
XcThenUpdate(s, success, t) ==
  Update(s, IF success THEN "completed" ELSE "failed",
         IF success THEN Pct(100) ELSE s.xcEstimatedProgress,
         IF success THEN "completed successfully" ELSE "failed with status code",
         "", t)

\* .then((result) => ...), lines 213-244.
XcThen(s, result, t) ==
  LET success == result.status = "0"
      s1 == IF s.hasCallback THEN Emit(s, XcThenUpdate(s, success, t)) ELSE s
      value ==
        IF success
        THEN [success |-> TRUE,
              output |-> IF result.output = <<>>
                         THEN <<Msg("operation completed successfully")>>
                         ELSE result.output,
              hasError |-> FALSE, error |-> <<>>]
        ELSE [success |-> FALSE, output |-> result.output, hasError |-> TRUE,
              error |-> IF result.error = <<>>
                        THEN <<Msg("Operation failed with status code"),
                               Msg(result.status)>>
                        ELSE result.error]
  IN  [s1 EXCEPT !.xcPromise = Resolve(@, value)]

\* error: `Failed during xcpretty execution: ${err.message}`
XcprettyError == <<Msg("Failed during xcpretty execution"), Msg("helper failed")>>

\* .catch((err) => ...), lines 245-264.
XcCatch(s, t) ==
  LET s1 == IF s.hasCallback
            THEN Emit(s, Update(s, "failed", s.xcEstimatedProgress,
                                "Failed during xcpretty execution", "", t))
            ELSE s
  IN  [s1 EXCEPT !.xcPromise =
         Resolve(@, [success |-> FALSE, output |-> <<>>, hasError |-> TRUE,
                     error |-> XcprettyError])]

\* The catch block of the promise executor, lines 265-272: executeStandard is
\* called and the promise it returns is the return value of the executor
\* function, which the Promise constructor ignores; resolve is not called.
XcSyncCatch(s) == ExecuteStandard(s)

\* executeWithXcpretty up to the return of its promise.  helperThrows: the
\* call of the helper throws instead of returning a promise.
ExecuteWithXcpretty(s, helperThrows) ==
  LET s1 == [s EXCEPT !.xcCurrentPhase = "Preparing", !.xcEstimatedProgress = 0,
                      !.xcLastProgressUpdate = 0, !.xcPromise = Pending]
  IN  IF helperThrows
      THEN XcSyncCatch([s1 EXCEPT !.helper = "threw"])
      ELSE [s1 EXCEPT !.helper = "running"]

\* --------------------------------------------------- executeXcodeCommand
\* command[0] === 'xcodebuild' && typeof xcpretty === 'function'
UseXcpretty(isXcodebuild, xcprettyIsFunction) == isXcodebuild /\ xcprettyIsFunction

\* uuidv4(), line 87: s.uuid is the identifier the generator hands to this
\* call; it hands no identifier out twice.
Uuidv4(s) == s.uuid

\* executeXcodeCommand, lines 86-114, after the command string is built.
ExecuteXcodeCommand(s, hasCallback, useXcpretty, helperThrows, t) ==
  LET s0 == [s EXCEPT !.pc = "called", !.hasCallback = hasCallback,
                      !.useXcpretty = useXcpretty, !.operationId = Uuidv4(s)]
      s1 == IF hasCallback
            THEN Emit(s0, Update(s0, "running", 0, "Starting", "", t))
            ELSE s0
  IN  IF useXcpretty THEN ExecuteWithXcpretty(s1, helperThrows)
      ELSE ExecuteStandard(s1)

\* The promise executeXcodeCommand returns: it returns the promise of the path
\* it selected.
CallerPromise(s) == IF s.useXcpretty THEN s.xcPromise ELSE s.stdPromise

\* ------------------------------------------------------------------ state
\* One call of executeXcodeCommand before it is made.  helper and child are the
\* state of the environment: the helper's promise and the child process;
\* outChunks and errChunks are the chunks the child has written, in the order
\* of their 'data' events.
NotCalled ==
  [pc |-> "idle", hasCallback |-> FALSE, useXcpretty |-> FALSE, operationId |-> 0,
   uuid |-> 1,
   helper |-> "none", child |-> "none", spawned |-> 0, events |-> 0,
   exitCode |-> "none", outChunks |-> <<>>, errChunks |-> <<>>,
   stdout |-> <<>>, stderr |-> <<>>, currentPhase |-> "", totalFiles |-> 0,
   processedFiles |-> 0, estimatedProgress |-> 0, lastProgressUpdate |-> 0,
   stdPromise |-> Pending,
   xcCurrentPhase |-> "", xcEstimatedProgress |-> 0, xcLastProgressUpdate |-> 0,
   xcPromise |-> Pending,
   updates |-> <<>>]

Init ==
  /\ ex = NotCalled /\ now = StartTime
  /\ dst = Idle /\ quo = Idle /\ con = Idle

\* The caller calls executeXcodeCommand.
Call ==
  /\ ex.pc = "idle"
  /\ \E hasCallback \in BOOLEAN, isXcodebuild \in BOOLEAN,
        xcprettyIsFunction \in BOOLEAN, helperThrows \in BOOLEAN :
       ex' = ExecuteXcodeCommand(ex, hasCallback,
                                 UseXcpretty(isXcodebuild, xcprettyIsFunction),
                                 helperThrows, now)
  /\ UNCHANGED <<now, dst, quo, con>>

\* Each event handler runs to completion and reads Date.now() as the time of
\* its event: every sendProgressUpdate of one handler sees the same time.

\* The child writes to stdout.
StdoutData ==
  /\ UNCHANGED <<dst, quo, con>>
  /\ ex.child \in {"spawned", "running"}
  /\ ex.events < MaxEvents
  /\ \E chunk \in StdoutChunks, d \in Deltas :
       /\ now' = now + d
       /\ ex' = [OnStdoutData(ex, chunk, now') EXCEPT
                   !.child = "running", !.events = @ + 1,
                   !.outChunks = Append(@, chunk)]

\* The child writes to stderr.
StderrData ==
  /\ UNCHANGED <<dst, quo, con>>
  /\ ex.child \in {"spawned", "running"}
  /\ ex.events < MaxEvents
  /\ \E chunk \in StderrChunks, d \in Deltas :
       /\ now' = now + d
       /\ ex' = [OnStderrData(ex, chunk, now') EXCEPT
                   !.child = "running", !.events = @ + 1,
                   !.errChunks = Append(@, chunk)]

\* The child exits and its streams close.
Close ==
  /\ UNCHANGED <<dst, quo, con>>
  /\ ex.child \in {"spawned", "running"}
  /\ \E exitCode \in ExitCodes, d \in Deltas :
       /\ now' = now + d
       /\ ex' = [OnClose(ex, exitCode, now') EXCEPT !.child = "closed",
                                                     !.exitCode = exitCode]

\* The child could not be started: 'error' is emitted before any output.
Error ==
  /\ UNCHANGED <<dst, quo, con>>
  /\ ex.child = "spawned"
  /\ \E d \in Deltas :
       /\ now' = now + d
       /\ ex' = [OnError(ex, now') EXCEPT !.child = "errored"]

\* Node emits 'close' with the negative error code after the 'error' of a
\* failed spawn.
CloseAfterError ==
  /\ UNCHANGED <<dst, quo, con>>
  /\ ex.child = "errored"
  /\ \E d \in Deltas :
       /\ now' = now + d
       /\ ex' = [OnClose(ex, SpawnErrorCode, now') EXCEPT
                   !.child = "closed", !.exitCode = SpawnErrorCode]

\* The helper reports progress.
HelperProgress ==
  /\ UNCHANGED <<dst, quo, con>>
  /\ ex.helper = "running"
  /\ ex.events < MaxEvents
  /\ \E data \in XcProgressData, d \in Deltas :
       /\ now' = now + d
       /\ ex' = [XcOnProgress(ex, data, now') EXCEPT !.events = @ + 1]

\* The helper's promise is fulfilled.
HelperResolves ==
  /\ UNCHANGED <<dst, quo, con>>
  /\ ex.helper = "running"
  /\ \E result \in XcResults, d \in Deltas :
       /\ now' = now + d
       /\ ex' = [XcThen(ex, result, now') EXCEPT !.helper = "resolved",
                                                  !.exitCode = result.status]

\* The helper's promise is rejected.
HelperRejects ==
  /\ UNCHANGED <<dst, quo, con>>
  /\ ex.helper = "running"
  /\ \E d \in Deltas :
       /\ now' = now + d
       /\ ex' = [XcCatch(ex, now') EXCEPT !.helper = "rejected"]

Next ==
  \/ Call
  \/ StdoutData
  \/ StderrData
  \/ Close
  \/ Error
  \/ CloseAfterError
  \/ HelperProgress
  \/ HelperResolves
  \/ HelperRejects

Spec == Init /\ [][Next]_vars

\* ================================================================ claims
Updates == ex.updates

IsTerminal(u) == u.status \in {"completed", "failed"}

TerminalIdx == {i \in DOMAIN Updates : IsTerminal(Updates[i])}

\* The execution has ended: the child closed or failed to start, or the
\* helper's promise settled.
Finished ==
  ex.child \in {"closed", "errored"} \/ ex.helper \in {"resolved", "rejected"}

\* The promise of the path whose handlers emit the terminal update.
EmitterPromise == IF ex.child # "none" THEN ex.stdPromise ELSE ex.xcPromise

\* The estimate of that path.
EmitterEstimate ==
  IF ex.child # "none" THEN ex.estimatedProgress ELSE ex.xcEstimatedProgress

\* A result of the given exit code: success exactly for exit code 0, and a
\* non-empty error otherwise.
ResultAgrees(p, exitCode) ==
  /\ p.state = "fulfilled"
  /\ exitCode = "0" => p.value.success
  /\ exitCode # "0" =>
       ~p.value.success /\ p.value.hasError /\ p.value.error # <<>>

\* C1: every call produces exactly one Execution Result: once the child has
\* closed or errored (or the helper has settled) the promise returned to the
\* caller is fulfilled.
C1_ResultProduced == Finished => CallerPromise(ex).state = "fulfilled"

\* C2: the result has success = true if the exit code is 0, and success = false
\* with a non-empty error for every other exit code (null included), whatever
\* stdout and stderr held; on both paths, for the result the path resolves.
C2_SuccessIffExitZero ==
  /\ ex.child = "closed" => ResultAgrees(ex.stdPromise, ex.exitCode)
  /\ ex.helper = "resolved" => ResultAgrees(ex.xcPromise, ex.exitCode)
  /\ (CallerPromise(ex).state = "fulfilled" /\ ex.exitCode # "none")
       => ResultAgrees(CallerPromise(ex), ex.exitCode)

C2_Witness ==
  /\ ex.child = "closed" /\ ex.exitCode = "null"
  /\ ex.stdout # <<>> /\ ex.stderr = <<>>
  /\ CallerPromise(ex).state = "fulfilled"
  /\ CallerPromise(ex).value.error # <<>>

\* C3: with a progress callback, exactly one terminal update is emitted and it
\* is the last update, on every path (a spawn 'error' followed by 'close'
\* included).
C3_OneTerminalLast ==
  /\ Cardinality(TerminalIdx) <= 1
  /\ \A i \in TerminalIdx : i = Len(Updates)
  /\ (Finished /\ ex.hasCallback) => TerminalIdx # {}

\* The spawn 'error' event has been handled.
SpawnFailed == ex.child = "errored" \/ ex.exitCode = SpawnErrorCode

\* C4: after a spawn 'error' the result of executeStandard (the caller's result
\* on the direct path) has success = false and the spawn failure as its error,
\* and with a callback a terminal update (failed, progress 0) was emitted.
C4_SpawnFailureReported ==
  SpawnFailed =>
    /\ ex.stdPromise.state = "fulfilled"
    /\ ~ex.stdPromise.value.success
    /\ ex.stdPromise.value.hasError
    /\ ex.stdPromise.value.error = SpawnError
    /\ ~ex.useXcpretty => CallerPromise(ex) = ex.stdPromise
    /\ ex.hasCallback =>
         \E i \in TerminalIdx :
           /\ Updates[i].status = "failed"
           /\ Updates[i].progress = 0
           /\ Updates[i].message = "Failed to start process"

C4_Witness ==
  /\ ex.exitCode = SpawnErrorCode /\ ex.hasCallback /\ ~ex.useXcpretty
  /\ CallerPromise(ex).value.error = SpawnError

\* C5: when the helper throws synchronously, the caller receives the result
\* executeStandard produces for the command.
C5_FallbackResultDelivered ==
  (ex.helper = "threw" /\ ex.stdPromise.state = "fulfilled")
    => CallerPromise(ex) = ex.stdPromise

\* C6: when the helper's promise rejects, the command is run on the
\* direct-capture path and the caller's result is not the helper's failure.
C6_RejectionRecovered ==
  ex.helper = "rejected" =>
    /\ ex.spawned > 0
    /\ CallerPromise(ex).state = "fulfilled"
         => CallerPromise(ex).value.error # XcprettyError

\* Update j is a running update emitted 1000 ms or less after the previously
\* emitted running update.  The "Starting" update of executeXcodeCommand, which
\* is sent before the throttle exists, is not taken as a previous update.
WithinInterval(j) ==
  /\ j \in 3..Len(Updates)
  /\ Updates[j].status = "running" /\ Updates[j - 1].status = "running"
  /\ Updates[j].timestamp - Updates[j - 1].timestamp <= progressUpdateInterval

\* Update j reports a transition to a new phase: the forced update of line 344,
\* or a helper update that names another phase than the update before it.
IsPhaseTransition(j) ==
  \/ Updates[j].message = "phase"
  \/ /\ Updates[j].message = "xcpretty"
     /\ Updates[j].phase # Updates[j - 1].phase

\* C7 (as claimed): every running update emitted 1000 ms or less after the
\* previous running update is a phase-transition update.
C7_OnlyPhaseTransitionsBypass ==
  \A j \in DOMAIN Updates : WithinInterval(j) => IsPhaseTransition(j)

\* The updates executeStandard sends with forceSend = true.
ForcedMessages == {"phase", "Processing file", "Warning"}

\* C7 (amended): every running update emitted 1000 ms or less after the
\* previous running update is one of the updates executeStandard forces: a
\* phase transition, an "N of M files" count or a stderr warning.
C7_ThrottleExceptForced ==
  \A j \in DOMAIN Updates :
    WithinInterval(j) => Updates[j].message \in ForcedMessages

\* A file-count update was sent within the interval, and an unforced update
\* passed the throttle.
C7_Witness ==
  \E j, k \in DOMAIN Updates :
    /\ WithinInterval(j) /\ Updates[j].message = "Processing file"
    /\ Updates[k].message = "Processing"

\* The floor a phase-transition update sets: the phase's floor on the direct
\* path, the value of the phase switch on the helper path.
IsPhaseFloor(u) ==
  \/ u.message = "phase" /\ u.progress = PhaseFloor(u.phase)
  \/ u.message = "xcpretty" /\ u.progress = XcPhaseProgress(u.phase, -1)

\* C8: the estimate carried by successive updates never decreases, except at a
\* phase-transition update, which carries the phase's floor.
C8_EstimateMonotone ==
  \A j \in 2..Len(Updates) :
    Updates[j].status = "running" =>
      \/ Updates[j].progress >= Updates[j - 1].progress
      \/ IsPhaseFloor(Updates[j])

\* C9: every terminal update agrees with the result its path resolves:
\* completed with progress 100 exactly when success = true, failed with the
\* last estimate (never 100) exactly when success = false.
C9_TerminalAgreesWithResult ==
  /\ \A i \in TerminalIdx :
       LET u == Updates[i]
           r == EmitterPromise.value
       IN  /\ EmitterPromise.state = "fulfilled"
           /\ (u.status = "completed" /\ u.progress = Pct(100)) <=> r.success
           /\ (/\ u.status = "failed"
               /\ u.progress = EmitterEstimate
               /\ u.progress # Pct(100)) <=> ~r.success
  /\ (EmitterPromise.state = "fulfilled" /\ ex.hasCallback) => TerminalIdx # {}

C9_Witness ==
  /\ ex.child = "closed" /\ ex.exitCode = "1" /\ ex.estimatedProgress > 0
  /\ CallerPromise(ex).state = "fulfilled"
  /\ \E i \in TerminalIdx : Updates[i].progress = ex.estimatedProgress

\* C10: every running update carries a progress between 0 and 95, and progress
\* 100 appears only in a completed update, after the process has exited.
C10_RunningProgressCapped ==
  \A i \in DOMAIN Updates :
    /\ Updates[i].status = "running" =>
         Updates[i].progress >= 0 /\ Updates[i].progress <= Pct(95)
    /\ Updates[i].progress >= Pct(100) =>
         /\ Updates[i].progress = Pct(100)
         /\ Updates[i].status = "completed"
         /\ ex.child = "closed" \/ ex.helper = "resolved"

\* An "N of M files" line with N greater than M has driven the estimate to the
\* cap of 95.
C10_Witness ==
  /\ ex.child = "running" /\ ex.processedFiles > ex.totalFiles /\ ex.totalFiles > 0
  /\ \E i \in DOMAIN Updates :
       /\ Updates[i].message = "Processing file"
       /\ Updates[i].progress = Pct(95)

\* The helper was handed the command and returned its promise: it runs the
\* command once.  A helper that throws has not started it.
HelperStarted == ex.helper \in {"running", "resolved", "rejected"}

\* How often the command of this call has been started.
CommandStarts == ex.spawned + (IF HelperStarted THEN 1 ELSE 0)

\* C13: a call starts its command exactly once on every path, the helper path
\* and its fallback included; a nonzero exit, a spawn failure or a failing
\* helper never starts it again.
C13_StartedExactlyOnce ==
  ex.pc = "called" =>
    /\ CommandStarts = 1
    /\ ex.child # "none" => ex.spawned = 1

C13_Witness ==
  /\ ex.helper = "threw" /\ ex.exitCode = SpawnErrorCode
  /\ ex.child = "closed" /\ ex.spawned = 1

\* The concatenation of chunks in the order of their arrival.
RECURSIVE Concat(_)
Concat(chunks) ==
  IF chunks = <<>> THEN <<>> ELSE Head(chunks) \o Concat(Tail(chunks))

\* C14: after exit code 0 the result's output is the concatenation of the
\* stdout chunks in arrival order, or the generic success message when that is
\* empty; it is never empty and the result has no error.  The helper's
\* successful result is never empty and has no error either.
C14_SuccessOutput ==
  /\ (ex.child = "closed" /\ ex.exitCode = "0") =>
       /\ ex.stdPromise.state = "fulfilled"
       /\ ex.stdPromise.value.output =
            (IF Concat(ex.outChunks) = <<>>
             THEN <<Msg("operation completed successfully")>>
             ELSE Concat(ex.outChunks))
       /\ ex.stdPromise.value.output # <<>>
       /\ ~ex.stdPromise.value.hasError /\ ex.stdPromise.value.error = <<>>
       /\ ~ex.useXcpretty => CallerPromise(ex) = ex.stdPromise
  /\ (ex.helper = "resolved" /\ ex.exitCode = "0") =>
       /\ ex.xcPromise.value.output # <<>>
       /\ ~ex.xcPromise.value.hasError /\ ex.xcPromise.value.error = <<>>

C14_Witness ==
  /\ ex.child = "closed" /\ ex.exitCode = "0" /\ ~ex.useXcpretty
  /\ Len(ex.outChunks) = 2 /\ ex.outChunks[1] # ex.outChunks[2]
  /\ ex.errChunks # <<>>
  /\ CallerPromise(ex).value.output = ex.outChunks[1] \o ex.outChunks[2]

\* A child that was started has exited with a code other than 0.
NonzeroExit == ex.child = "closed" /\ ex.exitCode \in ExitCodes \ {"0"}

\* C15: after a nonzero exit the result's error is the concatenation of the
\* stderr chunks when that is not empty and the generic message naming the
\* exit code otherwise, and its output is the concatenation of the stdout
\* chunks, empty when there were none.
C15_FailureErrorAndOutput ==
  NonzeroExit =>
    /\ ex.stdPromise.state = "fulfilled"
    /\ ex.stdPromise.value.hasError
    /\ ex.stdPromise.value.error =
         (IF Concat(ex.errChunks) = <<>>
          THEN <<Msg("Operation failed with exit code"), Msg(ex.exitCode)>>
          ELSE Concat(ex.errChunks))
    /\ ex.stdPromise.value.output = Concat(ex.outChunks)
    /\ ~ex.useXcpretty => CallerPromise(ex) = ex.stdPromise

C15_Witness ==
  /\ NonzeroExit /\ ~ex.useXcpretty
  /\ ex.outChunks = <<>> /\ Len(ex.errChunks) = 2
  /\ CallerPromise(ex).value.output = <<>>
  /\ CallerPromise(ex).value.error = ex.errChunks[1] \o ex.errChunks[2]

\* ============================================================ destinations
\* The values of the XcodePlatform enumeration.
SimulatorPlatforms ==
  {"iOS Simulator", "watchOS Simulator", "tvOS Simulator", "visionOS Simulator"}

DevicePlatforms == {"iOS", "watchOS", "tvOS", "visionOS"}

XcodePlatform == {"macOS"} \cup DevicePlatforms \cup SimulatorPlatforms

\* An optional argument that is not given.
Undefined == "<undefined>"

\* A string used as a condition: undefined and '' are falsy.
Truthy(v) == v # Undefined /\ v # ""

\* The arguments the callers pass.
SimulatorNames == {Undefined, "", "iPhone 16"}

SimulatorIds == {Undefined, "", "ABC-123"}

UseLatestOSValues == {Undefined, "true", "false"}

Archs == {Undefined, "arm64"}

\* The result of a call that may throw.
Returned(value) == [threw |-> FALSE, value |-> value, fallback |-> FALSE]

Thrown == [threw |-> TRUE, value |-> "", fallback |-> FALSE]

\* The return after the switch, lines 579-581, which logs an error.
Fallback(platform) ==
  [threw |-> FALSE, value |-> "platform=" \o platform, fallback |-> TRUE]

\* [iOSSimulator, watchOSSimulator, tvOSSimulator, visionOSSimulator].includes(platform)
IsSimulatorPlatform(platform) == platform \in SimulatorPlatforms

\* Mutant of DeviceDestination: the switch has no case for visionOS.
DeviceDestination_NoVisionOS(platform, arch) ==
  CASE platform = "macOS" ->
         Returned(IF Truthy(arch) THEN "platform=macOS,arch=" \o arch
                  ELSE "platform=macOS")
    [] platform = "iOS" -> Returned("generic/platform=iOS")
    [] platform = "watchOS" -> Returned("generic/platform=watchOS")
    [] platform = "tvOS" -> Returned("generic/platform=tvOS")
    [] OTHER -> Fallback(platform)

\* The switch over the platforms that are no simulators, lines 564-581.
DeviceDestination(platform, arch) ==
  CASE platform = "macOS" ->
         Returned(IF Truthy(arch) THEN "platform=macOS,arch=" \o arch
                  ELSE "platform=macOS")
    [] platform = "iOS" -> Returned("generic/platform=iOS")
    [] platform = "watchOS" -> Returned("generic/platform=watchOS")
    [] platform = "tvOS" -> Returned("generic/platform=tvOS")
    [] platform = "visionOS" -> Returned("generic/platform=visionOS")
    [] OTHER -> Fallback(platform)

\* Mutant of ConstructDestinationString: a simulator without name and id gets
\* a generic destination.
ConstructDestinationString_GenericFallback(platform, simulatorName, simulatorId, useLatest, arch) ==
  LET isSimulatorPlatform == platform \in SimulatorPlatforms
      latest == IF useLatest = Undefined THEN TRUE ELSE useLatest = "true"
  IN  IF isSimulatorPlatform /\ Truthy(simulatorId)
      THEN Returned("platform=" \o platform \o ",id=" \o simulatorId)
      ELSE IF isSimulatorPlatform /\ Truthy(simulatorName)
      THEN Returned("platform=" \o platform \o ",name=" \o simulatorName
                    \o (IF latest THEN ",OS=latest" ELSE ""))
      ELSE IF isSimulatorPlatform THEN Returned("platform=" \o platform)
      ELSE DeviceDestination(platform, arch)

\* Mutant of ConstructDestinationString: the name is looked at before the id.
ConstructDestinationString_NameFirst(platform, simulatorName, simulatorId, useLatest, arch) ==
  LET isSimulatorPlatform == platform \in SimulatorPlatforms
      latest == IF useLatest = Undefined THEN TRUE ELSE useLatest = "true"
  IN  IF isSimulatorPlatform /\ Truthy(simulatorName)
      THEN Returned("platform=" \o platform \o ",name=" \o simulatorName
                    \o (IF latest THEN ",OS=latest" ELSE ""))
      ELSE IF isSimulatorPlatform /\ Truthy(simulatorId)
      THEN Returned("platform=" \o platform \o ",id=" \o simulatorId)
      ELSE IF isSimulatorPlatform THEN Thrown
      ELSE DeviceDestination(platform, arch)

\* Mutant of ConstructDestinationString: ,OS=latest whatever useLatest is.
ConstructDestinationString_AlwaysLatest(platform, simulatorName, simulatorId, useLatest, arch) ==
  LET isSimulatorPlatform == platform \in SimulatorPlatforms
  IN  IF isSimulatorPlatform /\ Truthy(simulatorId)
      THEN Returned("platform=" \o platform \o ",id=" \o simulatorId)
      ELSE IF isSimulatorPlatform /\ Truthy(simulatorName)
      THEN Returned("platform=" \o platform \o ",name=" \o simulatorName
                    \o ",OS=latest")
      ELSE IF isSimulatorPlatform THEN Thrown
      ELSE DeviceDestination(platform, arch)

\* constructDestinationString, lines 527-582.  useLatest = Undefined takes the
\* default value true of the parameter.
ConstructDestinationString(platform, simulatorName, simulatorId, useLatest, arch) ==
  LET isSimulatorPlatform == IsSimulatorPlatform(platform)
      latest == IF useLatest = Undefined THEN TRUE ELSE useLatest = "true"
  IN  IF isSimulatorPlatform /\ Truthy(simulatorId)
      THEN Returned("platform=" \o platform \o ",id=" \o simulatorId)
      ELSE IF isSimulatorPlatform /\ Truthy(simulatorName)
      THEN Returned("platform=" \o platform \o ",name=" \o simulatorName
                    \o (IF latest THEN ",OS=latest" ELSE ""))
      ELSE IF isSimulatorPlatform /\ ~Truthy(simulatorId) /\ ~Truthy(simulatorName)
      THEN Thrown
      ELSE DeviceDestination(platform, arch)

\* What a call site hands back: an error response without a command, or the
\* command it built (and, for the tools, passed to executeXcodeCommand).
ErrorResponse(op) ==
  [pc |-> "done", op |-> op, isError |-> TRUE, command |-> <<>>, executed |-> FALSE]

Built(op, command, executed) ==
  [pc |-> "done", op |-> op, isError |-> FALSE, command |-> command,
   executed |-> executed]

\* executeXcodeBuild up to the call of executeXcodeCommand, lines 66-139, with a
\* workspace, a scheme and a configuration and the build action 'build'.  A
\* throw of constructDestinationString ends in the catch of line 213.
ExecuteXcodeBuild(platform, simulatorName, simulatorId, useLatestOS, arch) ==
  LET command == <<"xcodebuild", "-workspace", "App.xcworkspace", "-scheme", "App",
                   "-configuration", "Debug">>
      destination ==
        IF IsSimulatorPlatform(platform)
        THEN IF Truthy(simulatorId)
             THEN ConstructDestinationString(platform, Undefined, simulatorId,
                                             Undefined, Undefined)
             ELSE IF Truthy(simulatorName)
             THEN ConstructDestinationString(platform, simulatorName, Undefined,
                                             useLatestOS, Undefined)
             ELSE Thrown
        ELSE IF platform = "macOS"
        THEN ConstructDestinationString(platform, Undefined, Undefined, "false", arch)
        ELSE IF platform \in DevicePlatforms
        THEN Returned("generic/platform=" \o platform)
        ELSE Thrown
  IN  IF destination.threw THEN ErrorResponse("executeXcodeBuild")
      ELSE Built("executeXcodeBuild",
                 command \o <<"-destination", destination.value, "build">>, TRUE)

\* Mutant of HandleGetAppPathLogic: the name form never asks for the latest OS.
HandleGetAppPathLogic_NeverLatest(platform, simulatorName, simulatorId, useLatestOS) ==
  LET command == <<"xcodebuild", "-showBuildSettings", "-workspace",
                   "App.xcworkspace", "-scheme", "App", "-configuration", "Debug">>
      destination ==
        IF IsSimulatorPlatform(platform)
        THEN IF Truthy(simulatorId)
             THEN Returned("platform=" \o platform \o ",id=" \o simulatorId)
             ELSE IF Truthy(simulatorName)
             THEN Returned("platform=" \o platform \o ",name=" \o simulatorName)
             ELSE Thrown
        ELSE IF platform = "macOS"
        THEN Returned("platform=macOS,arch=arm64,arch=x86_64")
        ELSE IF platform \in DevicePlatforms
        THEN Returned("generic/platform=" \o platform)
        ELSE Thrown
  IN  IF destination.threw THEN ErrorResponse("getAppPath")
      ELSE Built("getAppPath", command \o <<"-destination", destination.value>>, TRUE)

\* useLatestOS: params.useLatestOS ?? true, in the handlers of the app-path
\* tools (app_path.ts, line 316).
UseLatestOSOrTrue(useLatestOS) ==
  IF useLatestOS = Undefined THEN "true" ELSE useLatestOS

\* _handleGetAppPathLogic up to the call of executeXcodeCommand, lines 43-96.
\* useLatestOS is a boolean used as a condition.
HandleGetAppPathLogic(platform, simulatorName, simulatorId, useLatestOS) ==
  LET command == <<"xcodebuild", "-showBuildSettings", "-workspace",
                   "App.xcworkspace", "-scheme", "App", "-configuration", "Debug">>
      destination ==
        IF IsSimulatorPlatform(platform)
        THEN IF Truthy(simulatorId)
             THEN Returned("platform=" \o platform \o ",id=" \o simulatorId)
             ELSE IF Truthy(simulatorName)
             THEN Returned("platform=" \o platform \o ",name=" \o simulatorName
                           \o (IF useLatestOS = "true" THEN ",OS=latest" ELSE ""))
             ELSE Thrown
        ELSE IF platform = "macOS"
        THEN Returned("platform=macOS,arch=arm64,arch=x86_64")
        ELSE IF platform \in DevicePlatforms
        THEN Returned("generic/platform=" \o platform)
        ELSE Thrown
  IN  IF destination.threw THEN ErrorResponse("getAppPath")
      ELSE Built("getAppPath", command \o <<"-destination", destination.value>>, TRUE)

\* addXcodeParameters, lines 454-516, for params with a workspace, a scheme, a
\* configuration and a platform, and no explicit destination: the throw of
\* constructDestinationString is caught and logged, and the function returns.
AddXcodeParameters(command, platform, simulatorName, simulatorId, useLatestOS) ==
  LET command1 == command \o <<"-workspace", "App.xcworkspace", "-scheme", "App",
                               "-configuration", "Debug">>
      destination ==
        ConstructDestinationString(platform, simulatorName, simulatorId,
                                   IF useLatestOS = Undefined THEN "true"
                                   ELSE useLatestOS,
                                   Undefined)
  IN  Built("addXcodeParameters",
            IF destination.threw THEN command1
            ELSE command1 \o <<"-destination", destination.value>>,
            FALSE)

\* The arguments and the outcome of one call.
DestinationCall(platform, simulatorName, simulatorId, useLatestOS, arch, outcome) ==
  [platform |-> platform, simulatorName |-> simulatorName,
   simulatorId |-> simulatorId, useLatestOS |-> useLatestOS, arch |-> arch,
   outcome |-> outcome]

\* A caller resolves a destination directly.
CallConstructDestinationString ==
  /\ dst = Idle
  /\ \E platform \in XcodePlatform, simulatorName \in SimulatorNames,
        simulatorId \in SimulatorIds, useLatestOS \in UseLatestOSValues,
        arch \in Archs :
       dst' = DestinationCall(platform, simulatorName, simulatorId, useLatestOS, arch,
                [pc |-> "done", op |-> "constructDestinationString",
                 result |-> ConstructDestinationString(platform, simulatorName,
                                                       simulatorId, useLatestOS, arch)])
  /\ UNCHANGED <<ex, now, quo, con>>

\* A build tool calls executeXcodeBuild.
CallExecuteXcodeBuild ==
  /\ dst = Idle
  /\ \E platform \in XcodePlatform, simulatorName \in SimulatorNames,
        simulatorId \in SimulatorIds, useLatestOS \in UseLatestOSValues,
        arch \in Archs :
       dst' = DestinationCall(platform, simulatorName, simulatorId, useLatestOS, arch,
                ExecuteXcodeBuild(platform, simulatorName, simulatorId,
                                  useLatestOS, arch))
  /\ UNCHANGED <<ex, now, quo, con>>

\* An app-path tool calls _handleGetAppPathLogic with the parameters of its
\* request, useLatestOS defaulted.
CallGetAppPath ==
  /\ dst = Idle
  /\ \E platform \in XcodePlatform, simulatorName \in SimulatorNames,
        simulatorId \in SimulatorIds, useLatestOS \in UseLatestOSValues :
       dst' = DestinationCall(platform, simulatorName, simulatorId, useLatestOS,
                Undefined,
                HandleGetAppPathLogic(platform, simulatorName, simulatorId,
                                      UseLatestOSOrTrue(useLatestOS)))
  /\ UNCHANGED <<ex, now, quo, con>>

\* A caller builds a command with addXcodeParameters.
CallAddXcodeParameters ==
  /\ dst = Idle
  /\ \E platform \in XcodePlatform, simulatorName \in SimulatorNames,
        simulatorId \in SimulatorIds, useLatestOS \in UseLatestOSValues :
       dst' = DestinationCall(platform, simulatorName, simulatorId, useLatestOS,
                Undefined,
                AddXcodeParameters(<<"xcodebuild">>, platform, simulatorName,
                                   simulatorId, useLatestOS))
  /\ UNCHANGED <<ex, now, quo, con>>

DestNext ==
  \/ CallConstructDestinationString
  \/ CallExecuteXcodeBuild
  \/ CallGetAppPath
  \/ CallAddXcodeParameters

DestSpec == Init /\ [][DestNext]_vars

\* The target is invalid: a simulator platform with neither id nor name.
InvalidTarget ==
  /\ dst.platform \in SimulatorPlatforms
  /\ ~Truthy(dst.simulatorId) /\ ~Truthy(dst.simulatorName)

CallSites == {"executeXcodeBuild", "getAppPath", "addXcodeParameters"}

\* C11: an invalid target is reported to the caller as an error on every path
\* that derives a destination, and no command is built or executed without a
\* destination.
C11_InvalidTargetIsError ==
  (dst # Idle /\ dst.outcome.op \in CallSites /\ InvalidTarget) =>
    /\ dst.outcome.isError
    /\ ~dst.outcome.executed
    /\ dst.outcome.command = <<>>

\* constructDestinationString was called directly.
Resolved == dst # Idle /\ dst.outcome.op = "constructDestinationString"

\* C19: for a simulator platform and a non-empty simulator id the resolver
\* returns platform=<P>,id=<ID>, whatever the name, useLatestOS and arch are.
C19_IdTakesPrecedence ==
  (Resolved /\ dst.platform \in SimulatorPlatforms /\ Truthy(dst.simulatorId)) =>
    /\ ~dst.outcome.result.threw
    /\ dst.outcome.result.value =
         "platform=" \o dst.platform \o ",id=" \o dst.simulatorId

C19_Witness ==
  /\ Resolved
  /\ dst.platform = "iOS Simulator" /\ dst.simulatorName = "iPhone 16"
  /\ dst.simulatorId = "ABC-123" /\ dst.useLatestOS = "true"
  /\ dst.outcome.result.value = "platform=iOS Simulator,id=ABC-123"

\* C20: for a simulator platform with a name and no id the resolver returns
\* platform=<P>,name=<NAME>,OS=latest when useLatestOS is true or omitted, and
\* platform=<P>,name=<NAME> when it is false.
C20_NameWithLatestOS ==
  (/\ Resolved
   /\ dst.platform \in SimulatorPlatforms
   /\ Truthy(dst.simulatorName) /\ ~Truthy(dst.simulatorId)) =>
    /\ ~dst.outcome.result.threw
    /\ dst.useLatestOS \in {Undefined, "true"} =>
         dst.outcome.result.value =
           "platform=" \o dst.platform \o ",name=" \o dst.simulatorName \o ",OS=latest"
    /\ dst.useLatestOS = "false" =>
         dst.outcome.result.value =
           "platform=" \o dst.platform \o ",name=" \o dst.simulatorName

C20_Witness ==
  /\ Resolved
  /\ dst.platform = "iOS Simulator" /\ dst.simulatorName = "iPhone 16"
  /\ dst.simulatorId = Undefined /\ dst.useLatestOS = "false"
  /\ dst.outcome.result.value = "platform=iOS Simulator,name=iPhone 16"

\* C21: constructDestinationString throws exactly when the platform is a
\* simulator platform and neither a simulator id nor a simulator name is given;
\* it then returns nothing, and for all other arguments it returns a
\* destination.
C21_ThrowsIffInvalidTarget ==
  Resolved =>
    /\ dst.outcome.result.threw <=> InvalidTarget
    /\ dst.outcome.result.threw => dst.outcome.result.value = ""
    /\ ~dst.outcome.result.threw => dst.outcome.result.value # ""

C21_Witness ==
  /\ Resolved /\ dst.platform = "visionOS Simulator"
  /\ dst.simulatorName = "" /\ dst.simulatorId = Undefined
  /\ dst.outcome.result.threw

\* C22: for a platform that is no simulator the destination does not depend on
\* simulatorName, simulatorId and useLatestOS: generic/platform=<P> for iOS,
\* watchOS, tvOS and visionOS, platform=macOS,arch=<ARCH> for macOS with an
\* architecture and platform=macOS without; the return after the switch is
\* reached for no platform of the enumeration.
C22_NonSimulatorDestination ==
  Resolved =>
    /\ ~dst.outcome.result.fallback
    /\ dst.platform \in DevicePlatforms =>
         /\ ~dst.outcome.result.threw
         /\ dst.outcome.result.value = "generic/platform=" \o dst.platform
    /\ dst.platform = "macOS" =>
         /\ ~dst.outcome.result.threw
         /\ dst.outcome.result.value =
              (IF dst.arch \in {Undefined, ""} THEN "platform=macOS"
               ELSE "platform=macOS,arch=" \o dst.arch)

C22_Witness ==
  /\ Resolved /\ dst.platform = "visionOS"
  /\ dst.simulatorName = "iPhone 16" /\ dst.simulatorId = "ABC-123"
  /\ dst.useLatestOS = "false"
  /\ dst.outcome.result.value = "generic/platform=visionOS"

\* The argument that follows -destination in the command.
DestinationOf(command) ==
  command[(CHOOSE i \in DOMAIN command : command[i] = "-destination") + 1]

DestinationCount(command) ==
  Cardinality({i \in DOMAIN command : command[i] = "-destination"})

\* C26: on every platform but macOS, executeXcodeBuild and the get-app-path
\* logic pass after -destination the string constructDestinationString returns
\* for the same platform, name, id and useLatestOS, and they return an error
\* response without executing a command exactly when it throws.
C26_CallSitesAgreeWithResolver ==
  (/\ dst # Idle
   /\ dst.outcome.op \in {"executeXcodeBuild", "getAppPath"}
   /\ dst.platform # "macOS") =>
    LET resolved == ConstructDestinationString(dst.platform, dst.simulatorName,
                                               dst.simulatorId, dst.useLatestOS,
                                               dst.arch)
    IN  /\ resolved.threw <=> dst.outcome.isError
        /\ dst.outcome.isError <=> ~dst.outcome.executed
        /\ dst.outcome.isError => dst.outcome.command = <<>>
        /\ ~resolved.threw =>
             /\ DestinationCount(dst.outcome.command) = 1
             /\ DestinationOf(dst.outcome.command) = resolved.value

C26_Witness ==
  /\ dst # Idle /\ dst.outcome.op = "getAppPath"
  /\ dst.platform = "tvOS Simulator" /\ dst.simulatorName = "iPhone 16"
  /\ dst.simulatorId = "" /\ dst.useLatestOS = Undefined
  /\ dst.outcome.executed
  /\ DestinationOf(dst.outcome.command) =
       "platform=tvOS Simulator,name=iPhone 16,OS=latest"

\* ================================================================= quoting
\* A token and the command string are sequences of characters.
MaxTokenLen == 3

SP == " "

NL == "\n"

DQ == "\""

SQ == "'"

BS == "\\"

Alphabet == {"a", SP, NL, ",", "=", SQ, DQ, BS}

Tokens == UNION {[1..n -> Alphabet] : n \in 0..MaxTokenLen}

\* The arguments next to which a token stands in a command.
Arguments == {<<"a">>, <<"a", SP, "a">>}

\* The command arrays executeXcodeCommand is called with.
Commands ==
  {<<t>> : t \in Tokens}
    \cup {<<t, u>> : t \in Tokens, u \in Arguments}
    \cup {<<u, t>> : t \in Tokens, u \in Arguments}

\* /[\s,"'=]/.test(arg)
NeedsQuoting(arg) == \E i \in DOMAIN arg : arg[i] \in {SP, NL, ",", DQ, SQ, "="}

\* /^".*"$/.test(arg): . matches every character but a line terminator.
AlreadyQuoted(arg) ==
  /\ Len(arg) >= 2
  /\ arg[1] = DQ /\ arg[Len(arg)] = DQ
  /\ \A i \in 2..(Len(arg) - 1) : arg[i] # NL

\* arg.replace(/(["\\])/g, '\\$1')
RECURSIVE EscapeQuotes(_)
EscapeQuotes(arg) ==
  IF arg = <<>> THEN <<>>
  ELSE (IF Head(arg) \in {DQ, BS} THEN <<BS, Head(arg)>> ELSE <<Head(arg)>>)
         \o EscapeQuotes(Tail(arg))

\* The function mapped over the command, lines 72-80.
EscapeArg(arg) ==
  IF NeedsQuoting(arg) /\ ~AlreadyQuoted(arg)
  THEN <<DQ>> \o EscapeQuotes(arg) \o <<DQ>>
  ELSE arg

\* command.map(...)
EscapedCommand(command) == [i \in DOMAIN command |-> EscapeArg(command[i])]

\* escapedCommand.join(' ')
RECURSIVE Join(_)
Join(args) ==
  IF args = <<>> THEN <<>>
  ELSE IF Len(args) = 1 THEN args[1]
  ELSE args[1] \o <<SP>> \o Join(Tail(args))

CommandString(command) == Join(EscapedCommand(command))

\* ------------------------------------------------------------- sh -c
\* What sh makes of the command string of spawn('sh', ['-c', commandString]):
\* the words of the command, or a syntax error for an unterminated quote.
\* Outside quotes a backslash makes the next character literal; inside double
\* quotes it does so before a double quote or a backslash only; a backslash
\* before a newline is a line continuation; a backslash that ends the string
\* stands for itself.
SyntaxError == [ok |-> FALSE, words |-> <<>>]

EndWord(words, word, inWord) == IF inWord THEN Append(words, word) ELSE words

RECURSIVE ShellScan(_, _, _, _, _, _)
ShellScan(str, i, mode, word, inWord, words) ==
  IF i > Len(str)
  THEN IF mode = "unquoted"
       THEN [ok |-> TRUE, words |-> EndWord(words, word, inWord)]
       ELSE SyntaxError
  ELSE
    LET c == str[i]
        more == i < Len(str)
    IN  CASE mode = "single" ->
               IF c = SQ THEN ShellScan(str, i + 1, "unquoted", word, TRUE, words)
               ELSE ShellScan(str, i + 1, mode, Append(word, c), TRUE, words)
          [] mode = "double" ->
               IF c = DQ THEN ShellScan(str, i + 1, "unquoted", word, TRUE, words)
               ELSE IF c = BS /\ more /\ str[i + 1] \in {DQ, BS}
               THEN ShellScan(str, i + 2, mode, Append(word, str[i + 1]), TRUE, words)
               ELSE IF c = BS /\ more /\ str[i + 1] = NL
               THEN ShellScan(str, i + 2, mode, word, TRUE, words)
               ELSE ShellScan(str, i + 1, mode, Append(word, c), TRUE, words)
          [] OTHER ->
               IF c \in {SP, NL}
               THEN ShellScan(str, i + 1, mode, <<>>, FALSE,
                              EndWord(words, word, inWord))
               ELSE IF c = DQ THEN ShellScan(str, i + 1, "double", word, TRUE, words)
               ELSE IF c = SQ THEN ShellScan(str, i + 1, "single", word, TRUE, words)
               ELSE IF c = BS /\ more /\ str[i + 1] = NL
               THEN ShellScan(str, i + 2, mode, word, inWord, words)
               ELSE IF c = BS /\ more
               THEN ShellScan(str, i + 2, mode, Append(word, str[i + 1]), TRUE, words)
               ELSE ShellScan(str, i + 1, mode, Append(word, c), TRUE, words)

ShellWords(str) == ShellScan(str, 1, "unquoted", <<>>, FALSE, <<>>)

\* ------------------------------------------------------------ quoting steps
\* executeXcodeCommand builds the command string of a command array.
BuildCommandString ==
  /\ quo = Idle
  /\ \E command \in Commands :
       quo' = [pc |-> "built", command |-> command,
               escapedCommand |-> EscapedCommand(command),
               commandString |-> CommandString(command)]
  /\ UNCHANGED <<ex, now, dst, con>>

\* sh -c splits the command string into the words of the command.
ShellSplits ==
  /\ quo # Idle /\ quo.pc = "built"
  /\ quo' = [pc |-> "split", command |-> quo.command,
             escapedCommand |-> quo.escapedCommand,
             commandString |-> quo.commandString,
             shell |-> ShellWords(quo.commandString)]
  /\ UNCHANGED <<ex, now, dst, con>>

\* A caller hands the quoted tokens to executeXcodeCommand again.
QuoteAgain ==
  /\ quo # Idle /\ quo.pc = "built"
  /\ quo' = [pc |-> "requoted", command |-> quo.command,
             escapedCommand |-> quo.escapedCommand,
             commandString |-> quo.commandString,
             requoted |-> EscapedCommand(quo.escapedCommand)]
  /\ UNCHANGED <<ex, now, dst, con>>

QuoteNext ==
  \/ BuildCommandString
  \/ ShellSplits
  \/ QuoteAgain

QuoteSpec == Init /\ [][QuoteNext]_vars

\* The command string was built.
Quoted == quo # Idle

\* C16: quoting is idempotent: quoting the quoted token returns it unchanged,
\* and a token that starts and ends with a double quote is not quoted again.
C16_QuotingIdempotent ==
  (Quoted /\ quo.pc = "requoted") =>
    \A i \in DOMAIN quo.command :
      /\ quo.requoted[i] = quo.escapedCommand[i]
      /\ (/\ Len(quo.command[i]) >= 2
          /\ quo.command[i][1] = DQ
          /\ quo.command[i][Len(quo.command[i])] = DQ)
           => quo.escapedCommand[i] = quo.command[i]

\* The token holds a space.
HasSpace(token) == \E i \in DOMAIN token : token[i] = SP

\* C17: quoting is round-trip-safe: when a token of the command holds a space,
\* the shell splits the command string into as many words as the command has
\* tokens, and the word of that token is the token.
C17_RoundTripSafe ==
  (Quoted /\ quo.pc = "split") =>
    \A i \in DOMAIN quo.command :
      HasSpace(quo.command[i]) =>
        /\ quo.shell.ok
        /\ Len(quo.shell.words) = Len(quo.command)
        /\ quo.shell.words[i] = quo.command[i]

\* The token is fully wrapped in double quotes.
FullyWrapped(token) ==
  Len(token) >= 2 /\ token[1] = DQ /\ token[Len(token)] = DQ

\* The token holds whitespace, a comma, a quote or '='.
HasSpecial(token) ==
  \E i \in DOMAIN token : token[i] \in {SP, NL, ",", SQ, DQ, "="}

\* q is token in double quotes with a backslash before every double quote and
\* backslash of the token: read from the left, each backslash of the body
\* stands before a double quote or a backslash of the token.
RECURSIVE Unescapes(_, _)
Unescapes(body, token) ==
  IF body = <<>> THEN token = <<>>
  ELSE IF Head(body) = BS
  THEN /\ Len(body) >= 2 /\ token # <<>>
       /\ body[2] \in {DQ, BS} /\ body[2] = Head(token)
       /\ Unescapes(Tail(Tail(body)), Tail(token))
  ELSE /\ token # <<>> /\ Head(body) = Head(token) /\ Head(body) # DQ
       /\ Unescapes(Tail(body), Tail(token))

IsWrappingOf(q, token) ==
  /\ Len(q) >= 2 /\ q[1] = DQ /\ q[Len(q)] = DQ
  /\ Unescapes(SubSeq(q, 2, Len(q) - 1), token)

\* str is the tokens args joined by single spaces.
RECURSIVE IsJoinOf(_, _)
IsJoinOf(str, args) ==
  IF args = <<>> THEN str = <<>>
  ELSE /\ Len(str) >= Len(args[1])
       /\ SubSeq(str, 1, Len(args[1])) = args[1]
       /\ IF Len(args) = 1 THEN Len(str) = Len(args[1])
          ELSE /\ Len(str) > Len(args[1])
               /\ str[Len(args[1]) + 1] = SP
               /\ IsJoinOf(SubSeq(str, Len(args[1]) + 2, Len(str)), Tail(args))

\* C18: a token is wrapped in double quotes, with its double quotes and
\* backslashes escaped, exactly when it holds whitespace, a comma, a quote or
\* '=' and is not fully wrapped in double quotes already; every other token is
\* passed through, and the command string is the quoted tokens joined by single
\* spaces in their order.
C18_WrapsExactlyWhenNeeded ==
  Quoted =>
    /\ \A i \in DOMAIN quo.command :
         IF HasSpecial(quo.command[i]) /\ ~FullyWrapped(quo.command[i])
         THEN IsWrappingOf(quo.escapedCommand[i], quo.command[i])
         ELSE quo.escapedCommand[i] = quo.command[i]
    /\ Len(quo.escapedCommand) = Len(quo.command)
    /\ IsJoinOf(quo.commandString, quo.escapedCommand)

\* ============================================================= concurrency
\* Two calls of executeXcodeCommand run at once.  Node runs one handler at a
\* time to completion, so the calls interleave event by event.
Callers == {1, 2}

\* The data events (stdout, stderr, helper progress) of both calls together.
ConMaxEvents == 3

ConStdoutChunks ==
  { <<LineOf("CompileC a.o a.c"), LineOf("CompileC a.o a.c")>>,
    <<LineOf("1 of 4 files")>> }

ConExitCodes == {"0", "1"}

ConProgressData == {XcData(FALSE, "Compile", 1, 4)}

ConResults == {XcResult("0", <<Msg("pretty build log")>>, <<>>)}

\* One event of one call: the call itself, or an event of its child or helper.
Event(kind, t) ==
  [kind |-> kind, t |-> t, hasCallback |-> FALSE, useXcpretty |-> FALSE,
   chunk |-> <<>>, code |-> "", data |-> XcData(TRUE, "", 0, 0),
   result |-> XcResult("", <<>>, <<>>)]

\* The handler of the event, run on the variables of one call.
Deliver(s, e) ==
  CASE e.kind = "call" ->
         ExecuteXcodeCommand(s, e.hasCallback, e.useXcpretty, FALSE, e.t)
    [] e.kind = "stdout" ->
         [OnStdoutData(s, e.chunk, e.t) EXCEPT
            !.child = "running", !.events = @ + 1, !.outChunks = Append(@, e.chunk)]
    [] e.kind = "stderr" ->
         [OnStderrData(s, e.chunk, e.t) EXCEPT
            !.child = "running", !.events = @ + 1, !.errChunks = Append(@, e.chunk)]
    [] e.kind = "close" ->
         [OnClose(s, e.code, e.t) EXCEPT !.child = "closed", !.exitCode = e.code]
    [] e.kind = "error" -> [OnError(s, e.t) EXCEPT !.child = "errored"]
    [] e.kind = "progress" -> [XcOnProgress(s, e.data, e.t) EXCEPT !.events = @ + 1]
    [] e.kind = "resolves" ->
         [XcThen(s, e.result, e.t) EXCEPT !.helper = "resolved",
                                          !.exitCode = e.result.status]

\* Both calls before either is made, with the events each has handled.
NoCalls ==
  [pc |-> "concurrent", calls |-> [i \in Callers |-> [NotCalled EXCEPT !.uuid = i]],
   logs |-> [i \in Callers |-> <<>>]]

Concurrent == IF con = Idle THEN NoCalls ELSE con

Max(a, b) == IF a > b THEN a ELSE b

\* Mutant of Closure: the throttle timestamps are variables of the module,
\* written by the handlers of both calls.
Closure_SharedThrottle(c, i) ==
  [c.calls[i] EXCEPT
     !.lastProgressUpdate = Max(c.calls[1].lastProgressUpdate,
                                c.calls[2].lastProgressUpdate),
     !.xcLastProgressUpdate = Max(c.calls[1].xcLastProgressUpdate,
                                  c.calls[2].xcLastProgressUpdate)]

\* The variables the handlers of call i read and write: the locals of
\* executeStandard (lines 293-304) and executeWithXcpretty (lines 129-133) are
\* declared inside the promise executor of the call, and the module has no
\* variable of its own.
Closure(c, i) == c.calls[i]

\* Call i handles the event.
Handle(c, i, e) ==
  [c EXCEPT !.calls[i] = Deliver(Closure(c, i), e), !.logs[i] = Append(@, e)]

DataEvents(c) == c.calls[1].events + c.calls[2].events

\* A caller calls executeXcodeCommand with a progress callback: the first call,
\* or the second one before the first has handled an event.
ConCall ==
  /\ \E i \in Callers, useXcpretty \in BOOLEAN :
       /\ Concurrent.calls[i].pc = "idle"
       /\ i = 2 => Len(Concurrent.logs[1]) = 1
       /\ con' = Handle(Concurrent, i,
                        [Event("call", now) EXCEPT !.hasCallback = TRUE,
                                                   !.useXcpretty = useXcpretty])
  /\ UNCHANGED <<ex, now, dst, quo>>

\* The child of one call writes to stdout.
ConStdoutData ==
  /\ DataEvents(Concurrent) < ConMaxEvents
  /\ \E i \in Callers, chunk \in ConStdoutChunks, d \in Deltas :
       /\ Concurrent.calls[i].child \in {"spawned", "running"}
       /\ now' = now + d
       /\ con' = Handle(Concurrent, i, [Event("stdout", now') EXCEPT !.chunk = chunk])
  /\ UNCHANGED <<ex, dst, quo>>

\* The child of one call writes to stderr.
ConStderrData ==
  /\ DataEvents(Concurrent) < ConMaxEvents
  /\ \E i \in Callers, chunk \in StderrChunks :
       /\ Concurrent.calls[i].child \in {"spawned", "running"}
       /\ now' = now + progressUpdateInterval
       /\ con' = Handle(Concurrent, i, [Event("stderr", now') EXCEPT !.chunk = chunk])
  /\ UNCHANGED <<ex, dst, quo>>

\* The child of one call exits, or closes after it could not be started.
ConClose ==
  /\ \E i \in Callers, exitCode \in ConExitCodes :
       /\ Concurrent.calls[i].child \in {"spawned", "running", "errored"}
       /\ now' = now + progressUpdateInterval
       /\ con' = Handle(Concurrent, i,
                        [Event("close", now') EXCEPT
                           !.code = IF Concurrent.calls[i].child = "errored"
                                    THEN SpawnErrorCode ELSE exitCode])
  /\ UNCHANGED <<ex, dst, quo>>

\* The child of one call could not be started.
ConError ==
  /\ \E i \in Callers :
       /\ Concurrent.calls[i].child = "spawned"
       /\ now' = now + progressUpdateInterval
       /\ con' = Handle(Concurrent, i, Event("error", now'))
  /\ UNCHANGED <<ex, dst, quo>>

\* The helper of one call reports progress.
ConHelperProgress ==
  /\ DataEvents(Concurrent) < ConMaxEvents
  /\ \E i \in Callers, data \in ConProgressData, d \in Deltas :
       /\ Concurrent.calls[i].helper = "running"
       /\ now' = now + d
       /\ con' = Handle(Concurrent, i, [Event("progress", now') EXCEPT !.data = data])
  /\ UNCHANGED <<ex, dst, quo>>

\* The promise of the helper of one call is fulfilled.
ConHelperResolves ==
  /\ \E i \in Callers, result \in ConResults :
       /\ Concurrent.calls[i].helper = "running"
       /\ now' = now + progressUpdateInterval
       /\ con' = Handle(Concurrent, i,
                        [Event("resolves", now') EXCEPT !.result = result])
  /\ UNCHANGED <<ex, dst, quo>>

ConNext ==
  \/ ConCall
  \/ ConStdoutData
  \/ ConStderrData
  \/ ConClose
  \/ ConError
  \/ ConHelperProgress
  \/ ConHelperResolves

ConSpec == Init /\ [][ConNext]_vars

\* What a call produces when it runs alone and handles the events of the log.
RECURSIVE Replay(_, _)
Replay(s, log) ==
  IF log = <<>> THEN s ELSE Replay(Deliver(s, Head(log)), Tail(log))

\* The (status, phase, progress estimate) of the updates of a call.
Progress(s) ==
  [k \in DOMAIN s.updates |->
     <<s.updates[k].status, s.updates[k].phase, s.updates[k].progress>>]

OperationIds(i) ==
  {con.calls[i].updates[k].operationId : k \in DOMAIN con.calls[i].updates}

\* C23: all updates of one execution, the Starting update, the running updates
\* and the terminal update, carry the operationId of the execution, and the
\* updates of two executions that run at once share no operationId.
C23_OneOperationIdPerExecution ==
  con # Idle =>
    /\ \A i \in Callers :
         con.calls[i].pc = "called" =>
           /\ con.calls[i].updates # <<>>
           /\ OperationIds(i) = {con.calls[i].operationId}
    /\ OperationIds(1) \cap OperationIds(2) = {}

C23_Witness ==
  /\ con # Idle
  /\ con.calls[1].child = "closed" /\ con.calls[2].helper = "resolved"
  /\ Len(con.calls[1].updates) >= 3 /\ Len(con.calls[2].updates) >= 3
  /\ OperationIds(1) = {1} /\ OperationIds(2) = {2}

\* -------------------------------------------------------- phase detection
\* The ordered list of markers and the floor of each phase.
PhaseMarkers == <<"CompileC", "CompileSwift", "Linking", "CodeSign">>

FloorOf(phase) ==
  CASE phase = "CompileC" -> Pct(0)
    [] phase = "CompileSwift" -> Pct(25)
    [] phase = "Linking" -> Pct(50)
    [] phase = "CodeSign" -> Pct(75)

MarkersIn(line) == {k \in DOMAIN PhaseMarkers : PhaseMarkers[k] \in line.marks}

\* The first marker of the list found in the line, "" when there is none.
FirstMarker(line) ==
  IF MarkersIn(line) = {} THEN ""
  ELSE PhaseMarkers[CHOOSE k \in MarkersIn(line) : \A j \in MarkersIn(line) : k <= j]

\* The line holds a marker other than the current phase.
HoldsOtherMarker(line, current) ==
  \E k \in MarkersIn(line) : PhaseMarkers[k] # current

\* The phases the lines switch to, one after the other, when a line switches
\* as soon as it holds a marker other than the current phase.
RECURSIVE SwitchesOnAnyMarker(_, _)
SwitchesOnAnyMarker(current, lines) ==
  IF lines = <<>> THEN <<>>
  ELSE IF HoldsOtherMarker(Head(lines), current)
  THEN <<FirstMarker(Head(lines))>>
         \o SwitchesOnAnyMarker(FirstMarker(Head(lines)), Tail(lines))
  ELSE SwitchesOnAnyMarker(current, Tail(lines))

\* The phases the lines switch to when a line switches only if its first
\* marker is not the current phase.
RECURSIVE SwitchesOnFirstMarker(_, _)
SwitchesOnFirstMarker(current, lines) ==
  IF lines = <<>> THEN <<>>
  ELSE IF FirstMarker(Head(lines)) \notin {"", current}
  THEN <<FirstMarker(Head(lines))>>
         \o SwitchesOnFirstMarker(FirstMarker(Head(lines)), Tail(lines))
  ELSE SwitchesOnFirstMarker(current, Tail(lines))

\* A stdout chunk was handled in this step; the chunk.
StdoutStep == Len(ex'.outChunks) = Len(ex.outChunks) + 1

NewChunk == ex'.outChunks[Len(ex'.outChunks)]

\* The phase updates emitted in this step.
IsPhaseUpdate(u) == u.message = "phase"

NewPhaseUpdates ==
  SelectSeq(SubSeq(ex'.updates, Len(ex.updates) + 1, Len(ex'.updates)),
            IsPhaseUpdate)

\* The step switches through the phases: one running update per switch, at
\* the time of the event, with the floor of the phase as its progress, and the
\* last phase is the current phase afterwards.
SwitchesThrough(phases) ==
  /\ Len(NewPhaseUpdates) = Len(phases)
  /\ \A k \in DOMAIN phases :
       /\ NewPhaseUpdates[k].status = "running"
       /\ NewPhaseUpdates[k].phase = phases[k]
       /\ NewPhaseUpdates[k].progress = FloorOf(phases[k])
       /\ NewPhaseUpdates[k].timestamp = now'
  /\ ex'.currentPhase = (IF phases = <<>> THEN ex.currentPhase
                         ELSE phases[Len(phases)])

\* No line of the chunk holds a file count.
NoFileCount(lines) == \A k \in DOMAIN lines : lines[k].files = NoMatch

\* C24 as stated: a line that holds a marker other than the current phase
\* switches to the first marker found in it, resets the estimate to the floor
\* of that phase and emits a running update at once.
C24_AnyOtherMarkerSwitches ==
  [][(StdoutStep /\ ex.hasCallback) =>
       SwitchesThrough(SwitchesOnAnyMarker(ex.currentPhase, NewChunk))]_vars

\* C24, amended: a line whose first marker (in the order of the list) is not
\* the current phase switches to that marker, resets the estimate to its floor
\* and emits a running update at once, whatever the throttle; a line whose first
\* marker is the current phase emits no phase update and does not lower the
\* estimate.
C24_FirstMarkerSwitches ==
  [][(StdoutStep /\ ex.hasCallback) =>
       /\ SwitchesThrough(SwitchesOnFirstMarker(ex.currentPhase, NewChunk))
       /\ (/\ SwitchesOnFirstMarker(ex.currentPhase, NewChunk) = <<>>
           /\ NoFileCount(NewChunk))
            => ex'.estimatedProgress >= ex.estimatedProgress]_vars

C24_Witness ==
  \E i \in DOMAIN Updates :
    /\ i > 2
    /\ Updates[i].message = "phase" /\ Updates[i].phase = "Linking"
    /\ Updates[i].progress = Pct(50)
    /\ Updates[i - 1].message = "phase" /\ Updates[i - 1].phase = "CompileSwift"
    /\ Updates[i].timestamp - Updates[i - 1].timestamp = progressUpdateInterval
    /\ ex.currentPhase = "Linking"

\* ------------------------------------------------- result and progress
\* The result as a function of what the child did alone: the chunks it wrote,
\* and its exit code or the failure of its start.
ResultOf(outChunks, errChunks, exitCode, spawnFailed) ==
  IF spawnFailed
  THEN [success |-> FALSE, output |-> Concat(outChunks), hasError |-> TRUE,
        error |-> <<Msg("Failed to start process"), Msg("spawn sh EAGAIN")>>]
  ELSE IF exitCode = "0"
  THEN [success |-> TRUE,
        output |-> IF Concat(outChunks) = <<>>
                   THEN <<Msg("operation completed successfully")>>
                   ELSE Concat(outChunks),
        hasError |-> FALSE, error |-> <<>>]
  ELSE [success |-> FALSE, output |-> Concat(outChunks), hasError |-> TRUE,
        error |-> IF Concat(errChunks) = <<>>
                  THEN <<Msg("Operation failed with exit code"), Msg(exitCode)>>
                  ELSE Concat(errChunks)]

\* C25: the result of executeStandard is determined by the stdout and stderr
\* chunks and the exit code or spawn error alone, with or without a progress
\* callback and whatever markers and file counts the output holds; without a
\* callback no update is emitted and the phase, the file counters, the estimate
\* and the throttle timestamp keep their initial values.
C25_ResultIndependentOfProgress ==
  /\ ex.child \in {"closed", "errored"} =>
       /\ ex.stdPromise.state = "fulfilled"
       /\ ex.stdPromise.value =
            ResultOf(ex.outChunks, ex.errChunks, ex.exitCode, SpawnFailed)
  /\ (ex.pc = "called" /\ ~ex.hasCallback) =>
       /\ ex.updates = <<>>
       /\ ex.currentPhase = "" /\ ex.estimatedProgress = 0
       /\ ex.totalFiles = 0 /\ ex.processedFiles = 0
       /\ ex.lastProgressUpdate = 0

C25_Witness ==
  /\ ex.pc = "called" /\ ~ex.hasCallback /\ ~ex.useXcpretty
  /\ ex.child = "closed" /\ ex.exitCode = "1"
  /\ ex.outChunks = << <<LineOf("1 of 4 files")>>, <<LineOf("Linking App")>> >>
  /\ ex.errChunks # <<>>
  /\ CallerPromise(ex).value.output = <<LineOf("1 of 4 files"), LineOf("Linking App")>>
  /\ ex.updates = <<>>

\* ------------------------------------------------------- stderr chunks
\* A stderr chunk was handled in this step; the chunk.
StderrStep == Len(ex'.errChunks) = Len(ex.errChunks) + 1

NewErrChunk == ex'.errChunks[Len(ex'.errChunks)]

\* C27: handling a stderr chunk appends it to the captured stderr and, with a
\* callback, emits one running update that carries the current estimate and
\* phase; the current phase, the estimate, the file counters and the captured
\* stdout stay as they are.
C27_StderrLeavesProgress ==
  [][StderrStep =>
       /\ ex'.stderr = ex.stderr \o NewErrChunk
       /\ ex'.stdout = ex.stdout
       /\ ex'.currentPhase = ex.currentPhase
       /\ ex'.estimatedProgress = ex.estimatedProgress
       /\ ex'.totalFiles = ex.totalFiles
       /\ ex'.processedFiles = ex.processedFiles
       /\ ~ex.hasCallback => ex'.updates = ex.updates
       /\ ex.hasCallback =>
            /\ Len(ex'.updates) = Len(ex.updates) + 1
            /\ SubSeq(ex'.updates, 1, Len(ex.updates)) = ex.updates
            /\ LET u == ex'.updates[Len(ex'.updates)]
               IN  /\ u.status = "running"
                   /\ u.message = "Warning"
                   /\ u.progress = ex.estimatedProgress
                   /\ u.phase = (IF ex.currentPhase = "" THEN "Preparing"
                                 ELSE ex.currentPhase)
                   /\ u.timestamp = now']_vars

C27_Witness ==
  /\ ex.errChunks # <<>> /\ ex.hasCallback /\ Len(Updates) >= 3
  /\ LET u == Updates[Len(Updates)]
     IN  /\ u.message = "Warning"
         /\ u.phase = "Linking" /\ ex.currentPhase = "Linking"
         /\ u.progress = Pct(50) /\ ex.estimatedProgress = Pct(50)
         /\ u.timestamp - Updates[Len(Updates) - 1].timestamp = progressUpdateInterval
====
